---------------------------- MODULE Spec2Model ----------------------------
(***************************************************************************)
(* Form-submission service: the request validator, the /submit pipeline    *)
(* (validate -> reCAPTCHA -> duplicate query -> insert -> respond) and the *)
(* CSV export route, in its deployment variants:                           *)
(*   cjs  src/src/functions/index.cjs   (Appwrite function, MongoClient)   *)
(*   srv  src/src/services/server.ts    (express server, data_handler)     *)
(*   ts   src/src/functions/index.ts    (Appwrite function, data_handler)  *)
(*                                                                         *)
(* JavaScript values are records [t, s, n]: t is the typeof tag, s the     *)
(* text of a string as a sequence of one-character strings, n the number.  *)
(* An object is a function from the names of its own properties to values; *)
(* a property the object does not have is outside its DOMAIN.              *)
(***************************************************************************)
EXTENDS Integers, Sequences, FiniteSets, TLC

VARIABLES
    store,       \* the collection: the documents in insertion order
    env,         \* process.env: GOOGLE_CAPTCHA_SECRET_KEY set?, ADMIN_KEY, NODE_ENV
    pc,          \* per request in flight: the await it is suspended at
    req,         \* per request: variant and route, body, admin key sent
    local,       \* per request: the handler's local variables
    ops,         \* per request: calls made to the collaborators so far
    res,         \* per request: the response sent
    vbody,       \* validator harness: the body handed to isValidFormData
    validation   \* validator harness: its result, NotRun before the call

vars == <<store, env, pc, req, local, ops, res, vbody, validation>>
pvars == <<store, env, pc, req, local, ops, res>>
vvars == <<vbody, validation>>

-----------------------------------------------------------------------------
(* JavaScript values *)

Undefined == [t |-> "undefined", s |-> <<>>, n |-> 0]
Null      == [t |-> "null",      s |-> <<>>, n |-> 0]
Str(cs)   == [t |-> "string",    s |-> cs,   n |-> 0]
Num(k)    == [t |-> "number",    s |-> <<>>, n |-> k]

\* v ? ... : ... , !v : JavaScript truthiness
Truthy(v) ==
    CASE v.t = "undefined" -> FALSE
      [] v.t = "null"      -> FALSE
      [] v.t = "string"    -> v.s # <<>>
      [] v.t = "number"    -> v.n # 0
      [] OTHER             -> TRUE

\* body[field] : undefined when the object has no such property
Get(obj, field) == IF field \in DOMAIN obj THEN obj[field] ELSE Undefined

\* A parsed request body: an object with properties f, or null, or a string
Obj(props)  == [t |-> "object", f |-> props]
NullBody    == [t |-> "null",   f |-> <<>>]
StringBody  == [t |-> "string", f |-> <<>>]

\* the object whose properties are the fields of rec that are not undefined
FromRecord(rec) ==
    [k \in {x \in DOMAIN rec : rec[x] # Undefined} |-> rec[k]]

-----------------------------------------------------------------------------
(* isValidFormData, index.cjs *)

Whitespace == {" ", "\t", "\n"}

\* /^[^\s@]+@[^\s@]+\.[^\s@]+$/.test(cs)
emailRegex(cs) ==
    \E i \in 1..Len(cs) :
        /\ cs[i] = "@"
        /\ \A k \in 1..Len(cs) : cs[k] \notin Whitespace /\ (cs[k] = "@" => k = i)
        /\ i >= 2
        /\ \E j \in (i + 2)..(Len(cs) - 1) : cs[j] = "."

optionalStringFields ==
    <<"github_link", "linkedin_link", "instagram_link",
      "team_name", "referrer_name", "referrer_email">>

NotRun == [valid |-> FALSE, error |-> "not run"]
Valid == [valid |-> TRUE, error |-> ""]
Invalid(msg) == [valid |-> FALSE, error |-> msg]

\* the for loop over optionalStringFields: the first offending field, 0 if none
FirstBadOptional(b) ==
    LET bad == {i \in 1..Len(optionalStringFields) :
                   /\ Get(b, optionalStringFields[i]) # Undefined
                   /\ Get(b, optionalStringFields[i]).t # "string"}
    IN IF bad = {} THEN 0 ELSE CHOOSE i \in bad : \A j \in bad : i <= j

\* the same validator with the e-mail format test moved before the about test
isValidFormDataFormatFirst(body) ==
    IF body.t # "object" THEN Invalid("Request body must be an object")
    ELSE LET b == body.f IN
    IF ~Truthy(Get(b, "captchaToken")) \/ Get(b, "captchaToken").t # "string"
      THEN Invalid("CAPTCHA token is required")
    ELSE IF ~Truthy(Get(b, "name")) \/ Get(b, "name").t # "string"
      THEN Invalid("Name is required and must be a string")
    ELSE IF ~Truthy(Get(b, "roll_number")) \/ Get(b, "roll_number").t # "number"
      THEN Invalid("Roll number is required and must be a number")
    ELSE IF ~Truthy(Get(b, "gender"))
            \/ (Get(b, "gender") # Str(<<"M">>) /\ Get(b, "gender") # Str(<<"F">>))
      THEN Invalid("Gender is required and must be 'M' or 'F'")
    ELSE IF ~Truthy(Get(b, "email")) \/ Get(b, "email").t # "string"
      THEN Invalid("Email is required and must be a string")
    ELSE IF ~emailRegex(Get(b, "email").s)
      THEN Invalid("Invalid email format")
    ELSE IF ~Truthy(Get(b, "about")) \/ Get(b, "about").t # "string"
      THEN Invalid("About is required and must be a string")
    ELSE IF FirstBadOptional(b) # 0
      THEN Invalid(optionalStringFields[FirstBadOptional(b)]
                      \o " must be a string if provided")
    ELSE IF Truthy(Get(b, "referrer_email"))
            /\ ~emailRegex(Get(b, "referrer_email").s)
      THEN Invalid("Invalid referrer email format")
    ELSE Valid

isValidFormData(body) ==
    IF body.t # "object" THEN Invalid("Request body must be an object")
    ELSE LET b == body.f IN
    IF ~Truthy(Get(b, "captchaToken")) \/ Get(b, "captchaToken").t # "string"
      THEN Invalid("CAPTCHA token is required")
    ELSE IF ~Truthy(Get(b, "name")) \/ Get(b, "name").t # "string"
      THEN Invalid("Name is required and must be a string")
    ELSE IF ~Truthy(Get(b, "roll_number")) \/ Get(b, "roll_number").t # "number"
      THEN Invalid("Roll number is required and must be a number")
    ELSE IF ~Truthy(Get(b, "gender"))
            \/ (Get(b, "gender") # Str(<<"M">>) /\ Get(b, "gender") # Str(<<"F">>))
      THEN Invalid("Gender is required and must be 'M' or 'F'")
    ELSE IF ~Truthy(Get(b, "email")) \/ Get(b, "email").t # "string"
      THEN Invalid("Email is required and must be a string")
    ELSE IF ~Truthy(Get(b, "about")) \/ Get(b, "about").t # "string"
      THEN Invalid("About is required and must be a string")
    ELSE IF ~emailRegex(Get(b, "email").s)
      THEN Invalid("Invalid email format")
    ELSE IF FirstBadOptional(b) # 0
      THEN Invalid(optionalStringFields[FirstBadOptional(b)]
                      \o " must be a string if provided")
    ELSE IF Truthy(Get(b, "referrer_email"))
            /\ ~emailRegex(Get(b, "referrer_email").s)
      THEN Invalid("Invalid referrer email format")
    ELSE Valid

-----------------------------------------------------------------------------
(* verifyCaptcha *)

ScoreThreshold == 5     \* data.score < 0.5, scores in tenths
NoScore == -1           \* data.score === undefined

\* what fetch(verifyUrl) and response.json() can produce
RemoteReplies ==
    {[kind |-> "throw", success |-> FALSE, score |-> NoScore],
     [kind |-> "json",  success |-> FALSE, score |-> NoScore],
     [kind |-> "json",  success |-> TRUE,  score |-> NoScore],
     [kind |-> "json",  success |-> TRUE,  score |-> ScoreThreshold - 1],
     [kind |-> "json",  success |-> TRUE,  score |-> ScoreThreshold]}

NoReply == [kind |-> "none", success |-> FALSE, score |-> NoScore]

CaptchaNotRun == [success |-> FALSE, error |-> "not run", fetched |-> FALSE]
CaptchaRejected(msg, fetched) == [success |-> FALSE, error |-> msg, fetched |-> fetched]
CaptchaAccepted == [success |-> TRUE, error |-> "", fetched |-> TRUE]

\* verifyCaptcha without the score test
verifyCaptchaNoScore(token, secretKey, reply) ==
    IF ~Truthy(token) THEN CaptchaRejected("CAPTCHA token is required", FALSE)
    ELSE IF ~secretKey THEN CaptchaRejected("reCAPTCHA not configured on server", FALSE)
    ELSE IF reply.kind = "throw" THEN CaptchaRejected("CAPTCHA verification error", TRUE)
    ELSE IF ~reply.success THEN CaptchaRejected("CAPTCHA verification failed", TRUE)
    ELSE CaptchaAccepted

\* verifyCaptcha letting the request through when no secret is configured
verifyCaptchaSecretOptional(token, secretKey, reply) ==
    IF ~Truthy(token) THEN CaptchaRejected("CAPTCHA token is required", FALSE)
    ELSE IF ~secretKey THEN [success |-> TRUE, error |-> "", fetched |-> FALSE]
    ELSE IF reply.kind = "throw" THEN CaptchaRejected("CAPTCHA verification error", TRUE)
    ELSE IF ~reply.success THEN CaptchaRejected("CAPTCHA verification failed", TRUE)
    ELSE IF reply.score # NoScore /\ reply.score < ScoreThreshold
      THEN CaptchaRejected("CAPTCHA score too low, please try again", TRUE)
    ELSE CaptchaAccepted

\* fetched: whether the remote call was made
verifyCaptcha(token, secretKey, reply) ==
    IF ~Truthy(token) THEN CaptchaRejected("CAPTCHA token is required", FALSE)
    ELSE IF ~secretKey THEN CaptchaRejected("reCAPTCHA not configured on server", FALSE)
    ELSE IF reply.kind = "throw" THEN CaptchaRejected("CAPTCHA verification error", TRUE)
    ELSE IF ~reply.success THEN CaptchaRejected("CAPTCHA verification failed", TRUE)
    ELSE IF reply.score # NoScore /\ reply.score < ScoreThreshold
      THEN CaptchaRejected("CAPTCHA score too low, please try again", TRUE)
    ELSE CaptchaAccepted

-----------------------------------------------------------------------------
(* The collection and the per-request state *)

Digits == <<"1", "2", "3", "4", "5", "6", "7", "8", "9">>

ObjectId(k) == [t |-> "objectid", s |-> <<>>, n |-> k]
\* insertedId.toString()
ObjectIdToString(oid) == Str(<<"#", Digits[oid.n]>>)

\* new Date() and new Date().toISOString(): one instant stands for the clock
Now == [t |-> "date", s |-> <<>>, n |-> 1]
ToISOString(d) == Str(<<"T", Digits[d.n]>>)

\* obj without the property field: const { field, ...rest } = obj
Without(obj, field) == [k \in DOMAIN obj \ {field} |-> obj[k]]

\* { ...more, ...obj }: the properties of obj override those of more
SpreadKeepsFirst(obj, more) ==
    [k \in DOMAIN obj \cup DOMAIN more |->
        IF k \in DOMAIN obj THEN obj[k] ELSE more[k]]

\* { ...obj, ...more }: the properties of more override those of obj
Spread(obj, more) ==
    [k \in DOMAIN obj \cup DOMAIN more |->
        IF k \in DOMAIN more THEN more[k] ELSE obj[k]]

\* an insert that replaces a stored document with the same roll_number
InsertOneUpsert(st, doc) ==
    IF \E i \in 1..Len(st) : Get(st[i], "roll_number") = Get(doc, "roll_number")
      THEN LET i == CHOOSE j \in 1..Len(st) :
                        Get(st[j], "roll_number") = Get(doc, "roll_number")
           IN [st EXCEPT ![i] = Spread(doc, [_id |-> st[i]["_id"]])]
      ELSE Append(st, Spread(doc, [_id |-> ObjectId(Len(st) + 1)]))

\* collection.insertOne(doc): the store assigns _id and appends the document
InsertOne(st, doc) ==
    Append(st, Spread(doc, [_id |-> ObjectId(Len(st) + 1)]))

\* the query with the email alternative left out
MatchesRollOnly(doc, roll, email) ==
    Get(doc, "roll_number") = roll

\* the query with the roll_number alternative left out
MatchesEmailOnly(doc, roll, email) ==
    Get(doc, "email") = email

\* { $or: [ { roll_number: r }, { email: e } ] }
MatchesOr(doc, roll, email) ==
    \/ Get(doc, "roll_number") = roll
    \/ Get(doc, "email") = email

NoRequest == [kind |-> "none", body |-> NullBody, key |-> Undefined]
NoLocal ==
    [validation |-> NotRun, data |-> NoReply, captchaResult |-> CaptchaNotRun,
     dataToSave |-> <<>>, existingData |-> <<>>, documents |-> <<>>,
     insertedId |-> Undefined, store0 |-> <<>>]
NoOps ==
    [fetch |-> 0, connect |-> 0, findOne |-> 0, find |-> 0, insertOne |-> 0,
     close |-> 0, failed |-> "", open |-> FALSE]
\* a response: error and id are the properties of a JSON body, text the
\* body of a text/csv response, data the documents that were exported
NoResponse ==
    [sent |-> 0, status |-> 0, ctype |-> "", error |-> "", details |-> "",
     id |-> Undefined, text |-> <<>>, data |-> <<>>]

\* res.json(data, statusCode) / res.send(body, statusCode, headers)
JsonError(status, msg) ==
    [sent |-> 1, status |-> status, ctype |-> "application/json", error |-> msg,
     details |-> "", id |-> Undefined, text |-> <<>>, data |-> <<>>]
JsonSuccess(id) ==
    [sent |-> 1, status |-> 200, ctype |-> "application/json", error |-> "",
     details |-> "", id |-> id, text |-> <<>>, data |-> <<>>]
SendCsv(csv, documents) ==
    [sent |-> 1, status |-> 200, ctype |-> "text/csv", error |-> "",
     details |-> "", id |-> Undefined, text |-> csv, data |-> documents]

\* dbError.message of the error a store call throws
ErrorMessage == "connection refused"

\* the catch of index.cjs: { error: msg, details: NODE_ENV === "development"
\* ? errorMessage : undefined } with status 500
CatchError(msg) ==
    [JsonError(500, msg) EXCEPT
        !.details = IF env.nodeEnv = "development" THEN ErrorMessage ELSE ""]

\* no request is taken once the store holds MaxStore documents
MaxStore == 3
StoreHasRoom == Len(store) < MaxStore

Respond(s, response) ==
    /\ res' = [res EXCEPT ![s] = response]
    /\ pc' = [pc EXCEPT ![s] = "done"]

\* the handler's promise rejects with nothing sent: no catch is around the
\* call that threw
Unhandled(s) ==
    /\ pc' = [pc EXCEPT ![s] = "unhandled"]
    /\ res' = res

\* a store call of request s threw: counted, and remembered in failed
Failed(s, op) ==
    ops' = [ops EXCEPT ![s][op] = @ + 1, ![s].failed = op]

-----------------------------------------------------------------------------
(* index.cjs, POST /submit *)

\* request arrives; isValidFormData(req.body)
CjsSubmit(s, body) ==
    /\ pc[s] = "idle"
    /\ StoreHasRoom
    /\ req' = [req EXCEPT ![s] = [kind |-> "cjs /submit", body |-> body, key |-> Undefined]]
    /\ LET validationResult == isValidFormData(body) IN
       /\ local' = [local EXCEPT ![s] = [NoLocal EXCEPT !.validation = validationResult,
                                                        !.store0 = store]]
       /\ IF ~validationResult.valid
            THEN Respond(s, JsonError(400, validationResult.error))
            ELSE /\ pc' = [pc EXCEPT ![s] = "verifyCaptcha"]
                 /\ res' = res
    /\ ops' = [ops EXCEPT ![s] = NoOps]
    /\ UNCHANGED <<store, env, vvars>>

\* the same step without the return after a rejection
CjsVerifyCaptchaNoReturn(s) ==
    /\ pc[s] = "verifyCaptcha"
    /\ req[s].kind = "cjs /submit"
    /\ \E reply \in RemoteReplies :
         LET captchaResult ==
                 verifyCaptcha(Get(req[s].body.f, "captchaToken"), env.captchaSecret, reply)
         IN /\ ops' = [ops EXCEPT ![s].fetch = IF captchaResult.fetched THEN @ + 1 ELSE @]
            /\ local' = [local EXCEPT
                           ![s].data = IF captchaResult.fetched THEN reply ELSE @,
                           ![s].captchaResult = captchaResult,
                           ![s].dataToSave = Without(req[s].body.f, "captchaToken")]
            /\ pc' = [pc EXCEPT ![s] = "connect"]
            /\ res' = res
    /\ UNCHANGED <<store, env, req, vvars>>

\* await verifyCaptcha(formData.captchaToken); strip the token
CjsVerifyCaptcha(s) ==
    /\ pc[s] = "verifyCaptcha"
    /\ req[s].kind = "cjs /submit"
    /\ \E reply \in RemoteReplies :
         LET captchaResult ==
                 verifyCaptcha(Get(req[s].body.f, "captchaToken"), env.captchaSecret, reply)
         IN /\ ops' = [ops EXCEPT ![s].fetch = IF captchaResult.fetched THEN @ + 1 ELSE @]
            /\ IF ~captchaResult.success
                 THEN /\ local' = [local EXCEPT
                                     ![s].data = IF captchaResult.fetched THEN reply ELSE @,
                                     ![s].captchaResult = captchaResult]
                      /\ Respond(s, JsonError(400, captchaResult.error))
                 ELSE /\ local' = [local EXCEPT
                                     ![s].data = reply,
                                     ![s].captchaResult = captchaResult,
                                     ![s].dataToSave = Without(req[s].body.f, "captchaToken")]
                      /\ pc' = [pc EXCEPT ![s] = "connect"]
                      /\ res' = res
    /\ UNCHANGED <<store, env, req, vvars>>

\* await client.connect()
CjsConnect(s) ==
    /\ pc[s] = "connect"
    /\ req[s].kind = "cjs /submit"
    /\ \/ /\ ops' = [ops EXCEPT ![s].connect = @ + 1, ![s].open = TRUE]
          /\ pc' = [pc EXCEPT ![s] = "findOne"]
          /\ res' = res
       \/ /\ Failed(s, "connect")
          /\ Respond(s, CatchError("Failed to save data"))
    /\ UNCHANGED <<store, env, req, local, vvars>>

\* await collection.findOne({ $or: [...] }): any matching document, or null
CjsFindOne(s) ==
    /\ pc[s] = "findOne"
    /\ LET d == local[s].dataToSave
           matching == {i \in 1..Len(store) :
                           MatchesOr(store[i], d["roll_number"], d["email"])}
       IN \/ /\ matching = {}
             /\ ops' = [ops EXCEPT ![s].findOne = @ + 1]
             /\ pc' = [pc EXCEPT ![s] = "insertOne"]
             /\ UNCHANGED <<local, res>>
          \/ /\ \E i \in matching :
                   local' = [local EXCEPT ![s].existingData = store[i]]
             /\ ops' = [ops EXCEPT ![s].findOne = @ + 1]
             /\ pc' = [pc EXCEPT ![s] = "closeDuplicate"]
             /\ res' = res
          \/ /\ Failed(s, "findOne")
             /\ Respond(s, CatchError("Failed to save data"))
             /\ local' = local
    /\ UNCHANGED <<store, env, req, vvars>>

\* the ternary testing email first
duplicateFieldEmailFirst(existingData, dataToSave) ==
    IF Get(existingData, "email") = Get(dataToSave, "email")
      THEN "email" ELSE "roll number"

\* existingData.roll_number === dataToSave.roll_number ? "roll number" : "email"
duplicateField(existingData, dataToSave) ==
    IF Get(existingData, "roll_number") = Get(dataToSave, "roll_number")
      THEN "roll number" ELSE "email"

\* the duplicate branch: await client.close(), then 409 naming duplicateField
CjsCloseDuplicate(s) ==
    /\ pc[s] = "closeDuplicate"
    /\ \/ /\ ops' = [ops EXCEPT ![s].close = @ + 1, ![s].open = FALSE]
          /\ Respond(s, JsonError(409,
                 "Registration with this "
                     \o duplicateField(local[s].existingData, local[s].dataToSave)
                     \o " already exists"))
       \/ /\ Failed(s, "close")
          /\ Respond(s, CatchError("Failed to save data"))
    /\ UNCHANGED <<store, env, req, local, vvars>>

\* await collection.insertOne({ ...dataToSave, createdAt, submittedAt })
CjsInsertOne(s) ==
    /\ pc[s] = "insertOne"
    /\ \/ /\ store' = InsertOne(store, Spread(local[s].dataToSave,
                                    [createdAt |-> Now, submittedAt |-> ToISOString(Now)]))
          /\ local' = [local EXCEPT ![s].insertedId = ObjectId(Len(store) + 1)]
          /\ ops' = [ops EXCEPT ![s].insertOne = @ + 1]
          /\ pc' = [pc EXCEPT ![s] = "close"]
          /\ res' = res
       \/ /\ Failed(s, "insertOne")
          /\ Respond(s, CatchError("Failed to save data"))
          /\ UNCHANGED <<store, local>>
    /\ UNCHANGED <<env, req, vvars>>

\* await client.close(), then 200 with result.insertedId.toString()
CjsClose(s) ==
    /\ pc[s] = "close"
    /\ \/ /\ ops' = [ops EXCEPT ![s].close = @ + 1, ![s].open = FALSE]
          /\ Respond(s, JsonSuccess(ObjectIdToString(local[s].insertedId)))
       \/ /\ Failed(s, "close")
          /\ Respond(s, CatchError("Failed to save data"))
    /\ UNCHANGED <<store, env, req, local, vvars>>

-----------------------------------------------------------------------------
(* index.cjs, GET /csv *)

\* validateAdminKey: both keys present, of equal length, and equal byte by byte
validateAdminKey(providedKey, actualKey) ==
    IF ~Truthy(providedKey) \/ ~Truthy(actualKey) THEN FALSE
    ELSE IF Len(providedKey.s) # Len(actualKey.s) THEN FALSE
    ELSE \A i \in 1..Len(actualKey.s) : providedKey.s[i] = actualKey.s[i]

\* request arrives; key is headers["x-admin-key"] || headers["X-Admin-Key"]
\* || query.key
CjsCsv(s, key) ==
    /\ pc[s] = "idle"
    /\ StoreHasRoom
    /\ req' = [req EXCEPT ![s] = [kind |-> "cjs /csv", body |-> NullBody, key |-> key]]
    /\ local' = [local EXCEPT ![s] = [NoLocal EXCEPT !.store0 = store]]
    /\ ops' = [ops EXCEPT ![s] = NoOps]
    /\ IF ~validateAdminKey(key, env.adminKey)
         THEN Respond(s, JsonError(401, "Invalid admin key"))
         ELSE /\ pc' = [pc EXCEPT ![s] = "csvConnect"]
              /\ res' = res
    /\ UNCHANGED <<store, env, vvars>>

\* await client.connect()
CjsCsvConnect(s) ==
    /\ pc[s] = "csvConnect"
    /\ \/ /\ ops' = [ops EXCEPT ![s].connect = @ + 1, ![s].open = TRUE]
          /\ pc' = [pc EXCEPT ![s] = "csvFind"]
          /\ res' = res
       \/ /\ Failed(s, "connect")
          /\ Respond(s, CatchError("Failed to export CSV"))
    /\ UNCHANGED <<store, env, req, local, vvars>>

\* await collection.find({}).toArray()
CjsCsvFind(s) ==
    /\ pc[s] = "csvFind"
    /\ \/ /\ ops' = [ops EXCEPT ![s].find = @ + 1]
          /\ local' = [local EXCEPT ![s].documents = store]
          /\ pc' = [pc EXCEPT ![s] = "csvClose"]
          /\ res' = res
       \/ /\ Failed(s, "find")
          /\ Respond(s, CatchError("Failed to export CSV"))
          /\ local' = local
    /\ UNCHANGED <<store, env, req, vvars>>

\* A text is a sequence of one-character strings; a field name and the run
\* of letters of a date stand in it as one element, none of which holds a
\* comma, a double quote or a line feed.

\* the order in which Object.keys lists the fields of a fetched document
FieldOrder ==
    <<"_id", "captchaToken", "name", "roll_number", "gender", "email", "about",
      "github_link", "referrer_email", "tech_stack", "createdAt", "submittedAt">>

ObjectKeys(doc) == SelectSeq(FieldOrder, LAMBDA k : k \in DOMAIN doc)

RECURSIVE Join(_, _)
\* parts.join(sep)
Join(parts, sep) ==
    IF parts = <<>> THEN <<>>
    ELSE IF Len(parts) = 1 THEN parts[1]
    ELSE parts[1] \o sep \o Join(Tail(parts), sep)

RECURSIVE NumberToString(_)
NumberToString(k) ==
    IF k = 0 THEN <<"0">>
    ELSE IF k < 10 THEN <<Digits[k]>>
    ELSE NumberToString(k \div 10) \o NumberToString(k % 10)

\* String(value), as Array.prototype.join renders an element that is not a
\* string: undefined and null as the empty text, a list as its elements
\* joined by commas
ToText(value) ==
    CASE value.t \in {"undefined", "null"} -> <<>>
      [] value.t = "string" -> value.s
      [] value.t = "number" -> NumberToString(value.n)
      [] value.t = "objectid" -> ObjectIdToString(value).s
      [] value.t = "date" -> <<"Wed", " ", Digits[value.n]>>
      [] value.t = "array" -> Join([i \in 1..Len(value.s) |-> <<value.s[i]>>], <<",">>)

RECURSIVE ReplaceQuotes(_)
\* value.replace(/"/g, '""')
ReplaceQuotes(cs) ==
    IF cs = <<>> THEN <<>>
    ELSE (IF Head(cs) = "\"" THEN <<"\"", "\"">> ELSE <<Head(cs)>>)
             \o ReplaceQuotes(Tail(cs))

\* the callback of headers.map: a string is escaped and quoted, any other
\* value is returned as it is
CsvField(value) ==
    IF value.t = "string"
      THEN <<"\"">> \o ReplaceQuotes(value.s) \o <<"\"">>
      ELSE ToText(value)

\* csvRows.join("\n"): the header line, then one line per document
Csv(documents) ==
    LET headers == ObjectKeys(documents[1])
        line(row) == Join([j \in 1..Len(headers) |-> CsvField(Get(row, headers[j]))],
                          <<",">>)
        csvRows == <<Join([j \in 1..Len(headers) |-> <<headers[j]>>], <<",">>)>>
                       \o [i \in 1..Len(documents) |-> line(documents[i])]
    IN Join(csvRows, <<"\n">>)

\* await client.close(), then the csv is sent as text/csv
CjsCsvClose(s) ==
    /\ pc[s] = "csvClose"
    /\ \/ /\ ops' = [ops EXCEPT ![s].close = @ + 1, ![s].open = FALSE]
          /\ Respond(s, IF Len(local[s].documents) = 0
                          THEN SendCsv(<<>>, <<>>)
                          ELSE SendCsv(Csv(local[s].documents), local[s].documents))
       \/ /\ Failed(s, "close")
          /\ Respond(s, CatchError("Failed to export CSV"))
    /\ UNCHANGED <<store, env, req, local, vvars>>

\* OPTIONS, /health (or /), and any other path: answered with no await
CjsOther(s, route) ==
    /\ pc[s] = "idle"
    /\ StoreHasRoom
    /\ req' = [req EXCEPT ![s] = [kind |-> "cjs " \o route, body |-> NullBody,
                                  key |-> Undefined]]
    /\ local' = [local EXCEPT ![s] = [NoLocal EXCEPT !.store0 = store]]
    /\ ops' = [ops EXCEPT ![s] = NoOps]
    /\ Respond(s, IF route \in {"OPTIONS", "/health"}
                    THEN JsonSuccess(Undefined)
                    ELSE JsonError(404, "Not found"))
    /\ UNCHANGED <<store, env, vvars>>

-----------------------------------------------------------------------------
(* services/data_handler: imported by server.ts and index.ts, its source   *)
(* is not part of the tree; modelled from the specification (persist the   *)
(* record with a single insert; fetch all records for the export).         *)

\* insertData(formData): the record is persisted as handed over
insertData(st, formData) == InsertOne(st, formData)

\* connectDB() and closeDB(): the call resolves, or it rejects
connectDB == {"resolves", "rejects"}
closeDB == {"resolves", "rejects"}

\* collection_to_csv(): the records of the store, as one csv text
collection_to_csv(st) == IF st = <<>> THEN <<>> ELSE Csv(st)

-----------------------------------------------------------------------------
(* server.ts *)

\* verifyCaptcha of server.ts: as in index.cjs, the caught error in the text
srvVerifyCaptcha(token, secretKey, reply) ==
    IF ~Truthy(token) THEN CaptchaRejected("CAPTCHA token is required", FALSE)
    ELSE IF ~secretKey THEN CaptchaRejected("reCAPTCHA not configured on server", FALSE)
    ELSE IF reply.kind = "throw" THEN CaptchaRejected("CAPTCHA verification error: Error", TRUE)
    ELSE IF ~reply.success THEN CaptchaRejected("CAPTCHA verification failed", TRUE)
    ELSE IF reply.score # NoScore /\ reply.score < ScoreThreshold
      THEN CaptchaRejected("CAPTCHA score too low, please try again", TRUE)
    ELSE CaptchaAccepted

\* POST /submit arrives: const { captchaToken, ...formData } = req.body
SrvSubmit(s, body) ==
    /\ pc[s] = "idle"
    /\ StoreHasRoom
    /\ body.t = "object"
    /\ req' = [req EXCEPT ![s] = [kind |-> "srv /submit", body |-> body, key |-> Undefined]]
    /\ local' = [local EXCEPT ![s] = [NoLocal EXCEPT
                                         !.dataToSave = Without(body.f, "captchaToken"),
                                         !.store0 = store]]
    /\ ops' = [ops EXCEPT ![s] = NoOps]
    /\ pc' = [pc EXCEPT ![s] = "srvVerifyCaptcha"]
    /\ UNCHANGED <<store, env, res, vvars>>

\* await verifyCaptcha(captchaToken)
SrvVerifyCaptcha(s) ==
    /\ pc[s] = "srvVerifyCaptcha"
    /\ \E reply \in RemoteReplies :
         LET captchaResult ==
                 srvVerifyCaptcha(Get(req[s].body.f, "captchaToken"), env.captchaSecret, reply)
         IN /\ ops' = [ops EXCEPT ![s].fetch = IF captchaResult.fetched THEN @ + 1 ELSE @]
            /\ local' = [local EXCEPT
                           ![s].data = IF captchaResult.fetched THEN reply ELSE @,
                           ![s].captchaResult = captchaResult]
            /\ IF ~captchaResult.success
                 THEN Respond(s, JsonError(400, captchaResult.error))
                 ELSE /\ pc' = [pc EXCEPT ![s] = "srvInsertData"]
                      /\ res' = res
    /\ UNCHANGED <<store, env, req, vvars>>

\* await insertData(formData), then "Data submitted successfully!"
SrvInsertData(s) ==
    /\ pc[s] = "srvInsertData"
    /\ \/ /\ store' = insertData(store, local[s].dataToSave)
          /\ ops' = [ops EXCEPT ![s].insertOne = @ + 1]
          /\ Respond(s, JsonSuccess(Undefined))
       \/ /\ Failed(s, "insertOne")
          /\ Respond(s, JsonError(500, ErrorMessage))
          /\ store' = store
    /\ UNCHANGED <<env, req, local, vvars>>

\* a list of one-character strings, as ?key=a&key=b gives for req.query.key
Arr(cs) == [t |-> "array", s |-> cs, n |-> 0]

\* GET /to_csv arrives; rawKey is req.query.key
SrvToCsv(s, rawKey) ==
    /\ pc[s] = "idle"
    /\ StoreHasRoom
    /\ LET adminKey == env.adminKey
           providedKey == IF rawKey.t = "array" THEN Str(<<rawKey.s[1]>>)
                          ELSE IF rawKey.t = "string" THEN rawKey
                          ELSE Undefined
           keysMatch == /\ Len(adminKey.s) = Len(providedKey.s)
                        /\ \A i \in 1..Len(adminKey.s) : adminKey.s[i] = providedKey.s[i]
       IN /\ req' = [req EXCEPT ![s] = [kind |-> "srv /to_csv", body |-> NullBody,
                                        key |-> providedKey]]
          /\ IF ~Truthy(adminKey) \/ ~Truthy(providedKey)
               THEN Respond(s, JsonError(403, "Forbidden: Admin key required"))
               ELSE IF ~keysMatch
               THEN Respond(s, JsonError(403, "Forbidden: Invalid admin key"))
               ELSE /\ pc' = [pc EXCEPT ![s] = "srvCollectionToCsv"]
                    /\ res' = res
    /\ local' = [local EXCEPT ![s] = [NoLocal EXCEPT !.store0 = store]]
    /\ ops' = [ops EXCEPT ![s] = NoOps]
    /\ UNCHANGED <<store, env, vvars>>

\* await collection_to_csv(), then the csv is sent
SrvCollectionToCsv(s) ==
    /\ pc[s] = "srvCollectionToCsv"
    /\ \/ /\ ops' = [ops EXCEPT ![s].find = @ + 1]
          /\ local' = [local EXCEPT ![s].documents = store]
          /\ Respond(s, SendCsv(collection_to_csv(store), store))
       \/ /\ Failed(s, "find")
          /\ Respond(s, JsonError(500, "Failed to export CSV"))
          /\ local' = local
    /\ UNCHANGED <<store, env, req, vvars>>

\* GET /health: await connectDB() and the send, with no try around them
SrvHealth(s) ==
    /\ pc[s] = "idle"
    /\ StoreHasRoom
    /\ req' = [req EXCEPT ![s] = [kind |-> "srv /health", body |-> NullBody,
                                  key |-> Undefined]]
    /\ local' = [local EXCEPT ![s] = [NoLocal EXCEPT !.store0 = store]]
    /\ \E outcome \in connectDB :
           IF outcome = "resolves"
             THEN /\ ops' = [ops EXCEPT ![s] = [NoOps EXCEPT !.connect = 1]]
                  /\ Respond(s, JsonSuccess(Undefined))
             ELSE /\ ops' = [ops EXCEPT ![s] = [NoOps EXCEPT !.connect = 1,
                                                             !.failed = "connect"]]
                  /\ Unhandled(s)
    /\ UNCHANGED <<store, env, vvars>>

\* GET /close: await closeDB() and the send, with no try around them
SrvClose(s) ==
    /\ pc[s] = "idle"
    /\ StoreHasRoom
    /\ req' = [req EXCEPT ![s] = [kind |-> "srv /close", body |-> NullBody,
                                  key |-> Undefined]]
    /\ local' = [local EXCEPT ![s] = [NoLocal EXCEPT !.store0 = store]]
    /\ \E outcome \in closeDB :
           IF outcome = "resolves"
             THEN /\ ops' = [ops EXCEPT ![s] = [NoOps EXCEPT !.close = 1]]
                  /\ Respond(s, JsonSuccess(Undefined))
             ELSE /\ ops' = [ops EXCEPT ![s] = [NoOps EXCEPT !.close = 1,
                                                             !.failed = "close"]]
                  /\ Unhandled(s)
    /\ UNCHANGED <<store, env, vvars>>

-----------------------------------------------------------------------------
(* index.ts, the handler over data_handler *)

\* POST /submit arrives: name and email are required
TsSubmit(s, body) ==
    /\ pc[s] = "idle"
    /\ StoreHasRoom
    /\ body.t = "object"
    /\ req' = [req EXCEPT ![s] = [kind |-> "ts /submit", body |-> body, key |-> Undefined]]
    /\ local' = [local EXCEPT ![s] = [NoLocal EXCEPT !.store0 = store]]
    /\ ops' = [ops EXCEPT ![s] = NoOps]
    /\ IF ~Truthy(Get(body.f, "name")) \/ ~Truthy(Get(body.f, "email"))
         THEN Respond(s, JsonError(400, "Name and email are required"))
         ELSE /\ pc' = [pc EXCEPT ![s] = "tsInsertData"]
              /\ res' = res
    /\ UNCHANGED <<store, env, vvars>>

\* await insertData(formData), formData being the whole body
TsInsertData(s) ==
    /\ pc[s] = "tsInsertData"
    /\ \/ /\ store' = insertData(store, req[s].body.f)
          /\ ops' = [ops EXCEPT ![s].insertOne = @ + 1]
          /\ Respond(s, JsonSuccess(Undefined))
       \/ /\ Failed(s, "insertOne")
          /\ Respond(s, JsonError(500, ErrorMessage))
          /\ store' = store
    /\ UNCHANGED <<env, req, local, vvars>>

\* GET /csv arrives; no key is looked at
TsCsv(s, key) ==
    /\ pc[s] = "idle"
    /\ StoreHasRoom
    /\ req' = [req EXCEPT ![s] = [kind |-> "ts /csv", body |-> NullBody, key |-> key]]
    /\ local' = [local EXCEPT ![s] = [NoLocal EXCEPT !.store0 = store]]
    /\ ops' = [ops EXCEPT ![s] = NoOps]
    /\ pc' = [pc EXCEPT ![s] = "tsCollectionToCsv"]
    /\ UNCHANGED <<store, env, res, vvars>>

\* await collection_to_csv(), then the csv is sent
TsCollectionToCsv(s) ==
    /\ pc[s] = "tsCollectionToCsv"
    /\ \/ /\ ops' = [ops EXCEPT ![s].find = @ + 1]
          /\ local' = [local EXCEPT ![s].documents = store]
          /\ Respond(s, SendCsv(collection_to_csv(store), store))
       \/ /\ Failed(s, "find")
          /\ Respond(s, JsonError(500, "Failed to export CSV"))
          /\ local' = local
    /\ UNCHANGED <<store, env, req, vvars>>

\* GET /health: await connectDB() inside the handler's try
TsHealth(s) ==
    /\ pc[s] = "idle"
    /\ StoreHasRoom
    /\ req' = [req EXCEPT ![s] = [kind |-> "ts /health", body |-> NullBody,
                                  key |-> Undefined]]
    /\ local' = [local EXCEPT ![s] = [NoLocal EXCEPT !.store0 = store]]
    /\ \E outcome \in connectDB :
           IF outcome = "resolves"
             THEN /\ ops' = [ops EXCEPT ![s] = [NoOps EXCEPT !.connect = 1]]
                  /\ Respond(s, JsonSuccess(Undefined))
             ELSE /\ ops' = [ops EXCEPT ![s] = [NoOps EXCEPT !.connect = 1,
                                                             !.failed = "connect"]]
                  /\ Respond(s, JsonError(500, "Internal server error"))
    /\ UNCHANGED <<store, env, vvars>>

\* GET /close: await closeDB() inside the handler's try
TsClose(s) ==
    /\ pc[s] = "idle"
    /\ StoreHasRoom
    /\ req' = [req EXCEPT ![s] = [kind |-> "ts /close", body |-> NullBody,
                                  key |-> Undefined]]
    /\ local' = [local EXCEPT ![s] = [NoLocal EXCEPT !.store0 = store]]
    /\ \E outcome \in closeDB :
           IF outcome = "resolves"
             THEN /\ ops' = [ops EXCEPT ![s] = [NoOps EXCEPT !.close = 1]]
                  /\ Respond(s, JsonSuccess(Undefined))
             ELSE /\ ops' = [ops EXCEPT ![s] = [NoOps EXCEPT !.close = 1,
                                                             !.failed = "close"]]
                  /\ Respond(s, JsonError(500, "Internal server error"))
    /\ UNCHANGED <<store, env, vvars>>

\* OPTIONS, answered before the try, and any other path
TsOther(s, route) ==
    /\ pc[s] = "idle"
    /\ StoreHasRoom
    /\ req' = [req EXCEPT ![s] = [kind |-> "ts " \o route, body |-> NullBody,
                                  key |-> Undefined]]
    /\ local' = [local EXCEPT ![s] = [NoLocal EXCEPT !.store0 = store]]
    /\ ops' = [ops EXCEPT ![s] = NoOps]
    /\ Respond(s, IF route = "OPTIONS"
                    THEN JsonSuccess(Undefined)
                    ELSE JsonError(404, "Endpoint not found"))
    /\ UNCHANGED <<store, env, vvars>>

\* the handler has returned or its promise has rejected; the slot takes the
\* next request
Return(s) ==
    /\ pc[s] \in {"done", "unhandled"}
    /\ pc' = [pc EXCEPT ![s] = "idle"]
    /\ req' = [req EXCEPT ![s] = NoRequest]
    /\ local' = [local EXCEPT ![s] = NoLocal]
    /\ ops' = [ops EXCEPT ![s] = NoOps]
    /\ res' = [res EXCEPT ![s] = NoResponse]
    /\ UNCHANGED <<store, env, vvars>>

-----------------------------------------------------------------------------
(* Request bodies of the pipeline runs *)

\* a@b.co, z@b.co, and three texts the pattern rejects
GoodEmail  == <<"a", "@", "b", ".", "c", "o">>
OtherEmail == <<"z", "@", "b", ".", "c", "o">>
NoAtEmail  == <<"n", "o", "t">>
NoDotEmail == <<"a", "@", "b">>
SpaceEmail == <<"a", " ", "@", "b", ".", "c">>

Submission(roll, email) ==
    Obj([captchaToken |-> Str(<<"t">>), name |-> Str(<<"A">>),
         roll_number |-> Num(roll), gender |-> Str(<<"F">>),
         email |-> Str(email), about |-> Str(<<"h">>)])

Ann      == Submission(7, GoodEmail)
SameRoll == Submission(7, OtherEmail)
SameMail == Submission(8, GoodEmail)
NoName   == Obj(Without(Ann.f, "name"))
NoToken  == Obj(Without(Ann.f, "captchaToken"))

\* about holds a double quote, a comma and a line feed
Quoting  == Obj(Spread(Ann.f, [about |-> Str(<<"q", "\"", ",", "\n">>)]))
\* a field the validator does not look at, holding a list (tech_stack:
\* string[] of the shared FormData type)
Listing  == Obj(Spread(Submission(8, OtherEmail).f,
                       [tech_stack |-> Arr(<<"a", "b">>)]))
\* the body names createdAt and submittedAt itself
Stamped  == Obj(Spread(Ann.f, [createdAt |-> Str(<<"x">>),
                               submittedAt |-> Str(<<"y">>)]))
\* referrer_email: left blank, well formed, malformed
BlankReferrer == Obj(Spread(Ann.f, [referrer_email |-> Str(<<>>)]))
GoodReferrer  == Obj(Spread(Submission(8, OtherEmail).f,
                            [referrer_email |-> Str(GoodEmail)]))
BadReferrer   == Obj(Spread(Ann.f, [referrer_email |-> Str(NoAtEmail)]))

AdminKey == Str(<<"k">>)

Envs ==
    [captchaSecret : BOOLEAN, adminKey : {Undefined, AdminKey},
     nodeEnv : {"development", "production"}]

InitPipeline(slots, envs) ==
    /\ store = <<>>
    /\ env \in envs
    /\ pc = [s \in slots |-> "idle"]
    /\ req = [s \in slots |-> NoRequest]
    /\ local = [s \in slots |-> NoLocal]
    /\ ops = [s \in slots |-> NoOps]
    /\ res = [s \in slots |-> NoResponse]
    /\ vbody = NullBody
    /\ validation = NotRun

-----------------------------------------------------------------------------
(* Spec: every variant and route, the requests handled one after the      *)
(* other, starting from the empty store.                                   *)

Bodies == {Ann, SameRoll, NoName, NoToken}

Keys == {Undefined, Str(<<>>), AdminKey, Str(<<"x">>), Str(<<"k", "k">>)}

Init == InitPipeline(1..1, Envs)

Next ==
    \/ \E body \in Bodies : CjsSubmit(1, body)
    \/ CjsVerifyCaptcha(1)
    \/ CjsConnect(1)
    \/ CjsFindOne(1)
    \/ CjsCloseDuplicate(1)
    \/ CjsInsertOne(1)
    \/ CjsClose(1)
    \/ \E key \in Keys : CjsCsv(1, key)
    \/ CjsCsvConnect(1)
    \/ CjsCsvFind(1)
    \/ CjsCsvClose(1)
    \/ \E route \in {"OPTIONS", "/health", "/other"} : CjsOther(1, route)
    \/ \E body \in Bodies : SrvSubmit(1, body)
    \/ SrvVerifyCaptcha(1)
    \/ SrvInsertData(1)
    \/ \E key \in Keys \cup {Arr(AdminKey.s)} : SrvToCsv(1, key)
    \/ SrvCollectionToCsv(1)
    \/ SrvHealth(1)
    \/ SrvClose(1)
    \/ \E body \in Bodies : TsSubmit(1, body)
    \/ TsInsertData(1)
    \/ \E key \in Keys : TsCsv(1, key)
    \/ TsCollectionToCsv(1)
    \/ TsHealth(1)
    \/ TsClose(1)
    \/ \E route \in {"OPTIONS", "/other"} : TsOther(1, route)
    \/ Return(1)

Spec == Init /\ [][Next]_vars

-----------------------------------------------------------------------------
(* SpecCjs: the index.cjs handler alone, its requests handled one after    *)
(* the other, starting from the empty store.                               *)

CjsBodies ==
    {Ann, SameRoll, SameMail, NoName, Quoting, Listing, Stamped,
     BlankReferrer, GoodReferrer, BadReferrer}

InitCjs == InitPipeline(1..1, Envs)

NextCjs ==
    \/ \E body \in CjsBodies : CjsSubmit(1, body)
    \/ CjsVerifyCaptcha(1)
    \/ CjsConnect(1)
    \/ CjsFindOne(1)
    \/ CjsCloseDuplicate(1)
    \/ CjsInsertOne(1)
    \/ CjsClose(1)
    \/ \E key \in Keys : CjsCsv(1, key)
    \/ CjsCsvConnect(1)
    \/ CjsCsvFind(1)
    \/ CjsCsvClose(1)
    \/ Return(1)

SpecCjs == InitCjs /\ [][NextCjs]_vars

-----------------------------------------------------------------------------
(* SpecRace: MaxReq /submit requests of index.cjs in flight together *)

MaxReq == 2

RaceBodies == {Ann, SameRoll, SameMail}

\* /submit reads no admin key; NODE_ENV changes the text of a 500 only
InitRace ==
    InitPipeline(1..MaxReq,
                 {e \in Envs : e.adminKey = AdminKey /\ e.nodeEnv = "production"})

NextRace ==
    \E s \in 1..MaxReq :
        \/ \E body \in RaceBodies : CjsSubmit(s, body)
        \/ CjsVerifyCaptcha(s)
        \/ CjsConnect(s)
        \/ CjsFindOne(s)
        \/ CjsCloseDuplicate(s)
        \/ CjsInsertOne(s)
        \/ CjsClose(s)

SpecRace == InitRace /\ [][NextRace]_vars

-----------------------------------------------------------------------------
(* Properties of the pipeline *)

Done(s) == pc[s] = "done"
IsSubmit(s) == req[s].kind \in {"cjs /submit", "srv /submit", "ts /submit"}
IsCsv(s) == req[s].kind \in {"cjs /csv", "srv /to_csv", "ts /csv"}

SameKey(a, b) ==
    \/ Get(a, "roll_number") # Undefined /\ Get(a, "roll_number") = Get(b, "roll_number")
    \/ Get(a, "email") # Undefined /\ Get(a, "email") = Get(b, "email")

\* C1: from the empty store, with the index.cjs /submit requests handled one
\* after the other, no two persisted records have the same roll_number and
\* no two have the same email.
C1_NoDuplicateKeys ==
    \A i, j \in 1..Len(store) : i # j => ~SameKey(store[i], store[j])

C1_Witness ==
    /\ Len(store) = 2
    /\ Done(1) /\ req[1].kind = "cjs /submit" /\ res[1].status = 409

\* C2: two concurrent index.cjs /submit requests with the same roll_number
\* or email can both pass the duplicate check and both be answered 200, and
\* whenever both are answered 200 the store holds two records with the same
\* key.
C2_BothAcceptedBothStored ==
    \A s1, s2 \in DOMAIN pc :
        (/\ s1 # s2
         /\ Done(s1) /\ Done(s2)
         /\ res[s1].status = 200 /\ res[s2].status = 200
         /\ SameKey(req[s1].body.f, req[s2].body.f))
        => \E i, j \in 1..Len(store) :
               /\ i # j
               /\ SameKey(store[i], store[j])
               /\ store[i]["_id"] = local[s1].insertedId
               /\ store[j]["_id"] = local[s2].insertedId

C2_Witness ==
    \E s1, s2 \in DOMAIN pc :
        /\ s1 # s2
        /\ Done(s1) /\ Done(s2)
        /\ ops[s1].findOne = 1 /\ local[s1].existingData = <<>>
        /\ ops[s2].findOne = 1 /\ local[s2].existingData = <<>>
        /\ res[s1].status = 200 /\ res[s2].status = 200
        /\ SameKey(req[s1].body.f, req[s2].body.f)
        /\ Len(store) = 2
        /\ SameKey(store[1], store[2])

\* C3: no record written to the store by index.cjs /submit, server.ts
\* /submit or the index.ts /submit handler contains the captchaToken field.
C3_TokenNeverPersisted ==
    \A i \in 1..Len(store) : "captchaToken" \notin DOMAIN store[i]

\* the abuse check was run for request s and had to reject
AbuseCheckRejects(s) ==
    /\ local[s].captchaResult # CaptchaNotRun
    /\ \/ ~Truthy(Get(req[s].body.f, "captchaToken"))
       \/ ~env.captchaSecret
       \/ local[s].data.kind = "throw"
       \/ ~local[s].data.success
       \/ local[s].data.score # NoScore /\ local[s].data.score < ScoreThreshold

ValidatorRejects(s) ==
    \/ local[s].validation # NotRun /\ ~local[s].validation.valid
    \/ req[s].kind = "ts /submit" /\ res[s].status = 400

NoStoreCall(s) ==
    /\ ops[s].connect = 0 /\ ops[s].findOne = 0 /\ ops[s].find = 0
    /\ ops[s].insertOne = 0 /\ ops[s].close = 0
    /\ ~ops[s].open

\* C4: a /submit request rejected by the validator or by the abuse check
\* (missing token, unconfigured secret, remote failure, success=false, score
\* below 0.5) performs no store operation and leaves the store unchanged.
C4_RejectedNeverReachesStore ==
    \A s \in DOMAIN pc :
        (IsSubmit(s) /\ (ValidatorRejects(s) \/ AbuseCheckRejects(s))) =>
            /\ NoStoreCall(s)
            /\ store = local[s].store0
            /\ Done(s) => res[s].status = 400

C4_Witness ==
    /\ Done(1) /\ req[1].kind = "cjs /submit"
    /\ local[1].data.kind = "json" /\ local[1].data.success
    /\ local[1].data.score = ScoreThreshold - 1
    /\ Len(store) > 0

\* the status the specification's step list gives a finished index.cjs
\* /submit request: that of its first failing step
FirstFailingStepStatus(s) ==
    IF ~local[s].validation.valid THEN 400
    ELSE IF ~local[s].captchaResult.success THEN 400
    ELSE IF ops[s].failed \in {"connect", "findOne"} THEN 500
    ELSE IF local[s].existingData # <<>> THEN 409
    ELSE IF ops[s].failed # "" THEN 500
    ELSE 200

\* C5: every index.cjs POST /submit ends with the outcome of its first
\* failing step: 400 validator, 400 abuse check, 409 duplicate found, 500
\* store operation threw, 200 with the store-assigned id otherwise.
C5_FirstFailingStepDecides ==
    \A s \in DOMAIN pc :
        (Done(s) /\ req[s].kind = "cjs /submit") =>
            /\ res[s].sent = 1
            /\ res[s].status = FirstFailingStepStatus(s)
            /\ res[s].status = 200 =>
                  \E i \in 1..Len(store) :
                      /\ store[i]["_id"] = local[s].insertedId
                      /\ res[s].id = ObjectIdToString(store[i]["_id"])

\* auxiliary: the same property, a throwing close after the duplicate was
\* found set aside
C5_ExceptCloseAfterDuplicate ==
    \A s \in DOMAIN pc :
        (/\ Done(s) /\ req[s].kind = "cjs /submit"
         /\ ~(local[s].existingData # <<>> /\ ops[s].failed = "close")) =>
            /\ res[s].sent = 1
            /\ res[s].status = FirstFailingStepStatus(s)

RollNumberMessage == "Registration with this roll number already exists"
EmailMessage == "Registration with this email already exists"

\* C8 (as claimed): a 409 names the roll number whenever some stored record
\* has the submitted roll_number, and names email only when none has.
C8_AnyRecordWithRollWins ==
    \A s \in DOMAIN pc :
        (Done(s) /\ req[s].kind = "cjs /submit" /\ res[s].status = 409) =>
            IF \E i \in 1..Len(store) :
                   store[i]["roll_number"] = req[s].body.f["roll_number"]
              THEN res[s].error = RollNumberMessage
              ELSE res[s].error = EmailMessage

\* C8 (amended): a 409 names the roll number exactly when the record the
\* duplicate query returned has the submitted roll_number; it names email
\* when that record has another roll_number (and so the submitted email),
\* also when a different stored record has the submitted roll_number.
C8_ReturnedRecordDecides ==
    \A s \in DOMAIN pc :
        (Done(s) /\ req[s].kind = "cjs /submit" /\ res[s].status = 409) =>
            /\ \E i \in 1..Len(store) : store[i] = local[s].existingData
            /\ IF local[s].existingData["roll_number"] = req[s].body.f["roll_number"]
                 THEN res[s].error = RollNumberMessage
                 ELSE /\ res[s].error = EmailMessage
                      /\ local[s].existingData["email"] = req[s].body.f["email"]

C8_Witness ==
    /\ Done(1) /\ req[1].kind = "cjs /submit" /\ res[1].status = 409
    /\ res[1].error = EmailMessage
    /\ \E i \in 1..Len(store) :
           store[i]["roll_number"] = req[1].body.f["roll_number"]

\* the request ran with a valid body, an accepting abuse check and no
\* failing store call
CleanRun(s) ==
    /\ Done(s) /\ req[s].kind = "cjs /submit"
    /\ local[s].validation.valid
    /\ local[s].captchaResult.success
    /\ ops[s].failed = ""

\* C9: with an accepting abuse check and an empty store, a valid /submit is
\* answered 200 with the generated id and leaves one record; a following
\* valid /submit with the same roll_number (same or different email) is
\* answered 409 naming the roll number and the store still holds one record.
C9_SecondSubmissionIsDuplicate ==
    /\ (CleanRun(1) /\ local[1].store0 = <<>>) =>
          /\ res[1].status = 200
          /\ Len(store) = 1
          /\ res[1].id = ObjectIdToString(store[1]["_id"])
          /\ store[1]["roll_number"] = req[1].body.f["roll_number"]
    /\ (/\ CleanRun(1) /\ Len(local[1].store0) = 1
        /\ local[1].store0[1]["roll_number"] = req[1].body.f["roll_number"]) =>
          /\ res[1].status = 409
          /\ res[1].error = RollNumberMessage
          /\ store = local[1].store0

C9_Witness ==
    /\ CleanRun(1) /\ Len(local[1].store0) = 1
    /\ local[1].store0[1]["roll_number"] = req[1].body.f["roll_number"]
    /\ local[1].store0[1]["email"] # req[1].body.f["email"]
    /\ res[1].status = 409

\* the key sent is the configured shared secret
KeyIsCorrect(key) ==
    /\ key.t = "string" /\ key.s # <<>>
    /\ env.adminKey.t = "string"
    /\ key.s = env.adminKey.s

\* C10: in every variant a CSV export request whose admin key is missing or
\* wrong (or with no secret configured) is answered 403, the store is not
\* read and no record data is in the response.
C10_BadKeyForbidden ==
    \A s \in DOMAIN pc :
        (Done(s) /\ IsCsv(s) /\ ~KeyIsCorrect(req[s].key)) =>
            /\ res[s].status = 403
            /\ ops[s].connect = 0 /\ ops[s].find = 0
            /\ res[s].data = <<>>

\* auxiliary: the same property of server.ts /to_csv alone
C10_ServerForbids ==
    \A s \in DOMAIN pc :
        (Done(s) /\ req[s].kind = "srv /to_csv" /\ ~KeyIsCorrect(req[s].key)) =>
            /\ res[s].status = 403
            /\ ops[s].connect = 0 /\ ops[s].find = 0
            /\ res[s].data = <<>>

\* the response of request s shows the message of the error that was thrown
ShowsMessage(s) ==
    \/ res[s].error = ErrorMessage
    \/ res[s].details = ErrorMessage

\* C13: in every variant a /submit whose store operation threw is answered
\* 500, and the response shows the thrown error's message only when
\* NODE_ENV is development.
C13_MessageOnlyInDevelopment ==
    \A s \in DOMAIN pc :
        (Done(s) /\ IsSubmit(s) /\ ops[s].failed # "") =>
            /\ res[s].status = 500
            /\ ShowsMessage(s) => env.nodeEnv = "development"

\* auxiliary: the same property of index.cjs /submit alone, where the
\* message is shown exactly in development
C13_CjsSubmit ==
    \A s \in DOMAIN pc :
        (Done(s) /\ req[s].kind = "cjs /submit" /\ ops[s].failed # "") =>
            /\ res[s].status = 500
            /\ ShowsMessage(s) <=> env.nodeEnv = "development"

\* the handling of request s has ended
Ended(s) == pc[s] \in {"done", "unhandled"}

\* C12: on every route of every variant a request whose handling has ended
\* was answered with exactly one response, and with a 500 when a call made
\* for it (a store connect or close included) threw; none ends unanswered
\* or with an unhandled error.
C12_EveryFailureAnswered ==
    \A s \in DOMAIN pc :
        Ended(s) =>
            /\ pc[s] # "unhandled"
            /\ res[s].sent = 1
            /\ ops[s].failed # "" => res[s].status = 500

\* auxiliary: the same property of the index.cjs and index.ts handlers
C12_FunctionsAnswer ==
    \A s \in DOMAIN pc :
        (Ended(s) /\ req[s].kind \notin {"srv /health", "srv /close"}) =>
            /\ pc[s] # "unhandled"
            /\ res[s].sent = 1
            /\ ops[s].failed # "" => res[s].status = 500

\* request s of index.cjs opened a connection
Opened(s) ==
    /\ req[s].kind \in {"cjs /submit", "cjs /csv"}
    /\ ops[s].connect = 1 /\ ops[s].failed # "connect"

\* C14: an index.cjs /submit or /csv request that opened a store connection
\* has closed it when its response is sent, also when connect, findOne, find
\* or insertOne threw.
C14_ClosedBeforeResponse ==
    \A s \in DOMAIN pc :
        (Done(s) /\ Opened(s)) => (ops[s].close = 1 /\ ~ops[s].open)

\* auxiliary: the same property of the requests none of whose calls threw
C14_ClosedWhenNothingThrew ==
    \A s \in DOMAIN pc :
        (Done(s) /\ Opened(s) /\ ops[s].failed = "") =>
            (ops[s].close = 1 /\ ~ops[s].open)

\* C15: within one index.cjs /submit the abuse check is called at most once
\* and only after the validator accepted, findOne at most once and only
\* after the abuse check accepted, insertOne at most once and only after
\* findOne found nothing; a call that threw is not made again.
C15_StepsOnceInOrder ==
    \A s \in DOMAIN pc :
        req[s].kind = "cjs /submit" =>
            /\ ops[s].fetch <= 1
            /\ (ops[s].fetch = 1 \/ local[s].captchaResult # CaptchaNotRun) =>
                   local[s].validation.valid
            /\ ops[s].connect <= 1 /\ ops[s].findOne <= 1
            /\ ops[s].findOne = 1 => local[s].captchaResult.success
            /\ ops[s].insertOne <= 1 /\ ops[s].close <= 1
            /\ ops[s].insertOne = 1 =>
                   /\ ops[s].findOne = 1 /\ ops[s].failed # "findOne"
                   /\ local[s].existingData = <<>>
            /\ ops[s].failed # "" => Done(s)

C15_Witness ==
    /\ Done(1) /\ req[1].kind = "cjs /submit"
    /\ ops[1].fetch = 1 /\ ops[1].findOne = 1 /\ ops[1].insertOne = 1
    /\ ops[1].failed = "insertOne"
    /\ res[1].status = 500

\* C16: verifyCaptcha (index.cjs and server.ts) accepts exactly when the
\* token is non-empty, the secret is configured, the remote reply parses,
\* its success flag is truthy and it has no score or a score of at least
\* 0.5; without token or secret it rejects with no remote call, and a thrown
\* network or parse error is a rejection (answered 400), not an exception.
C16_AcceptsExactlyWhen ==
    \A s \in DOMAIN pc :
        (/\ req[s].kind \in {"cjs /submit", "srv /submit"}
         /\ local[s].captchaResult # CaptchaNotRun) =>
            LET token == Get(req[s].body.f, "captchaToken")
                reply == local[s].data
            IN /\ local[s].captchaResult.success <=>
                      /\ Truthy(token)
                      /\ env.captchaSecret
                      /\ reply.kind = "json"
                      /\ reply.success
                      /\ reply.score = NoScore \/ reply.score >= ScoreThreshold
               /\ (~Truthy(token) \/ ~env.captchaSecret) =>
                      /\ ops[s].fetch = 0
                      /\ ~local[s].captchaResult.fetched
               /\ (Truthy(token) /\ env.captchaSecret) => ops[s].fetch = 1
               /\ reply.kind = "throw" =>
                      /\ ~local[s].captchaResult.success
                      /\ pc[s] = "done" /\ res[s].status = 400

C16_Witness ==
    /\ Done(1) /\ req[1].kind = "srv /submit"
    /\ ~Truthy(Get(req[1].body.f, "captchaToken"))
    /\ env.captchaSecret
    /\ local[1].captchaResult # CaptchaNotRun
    /\ ops[1].fetch = 0
    /\ res[1].status = 400

\* C17: the record index.cjs /submit inserts has exactly the fields of the
\* request body other than captchaToken, with the submitted values, plus
\* createdAt and submittedAt (and the _id the store assigns); createdAt and
\* submittedAt hold the server's values also when the body names them.
C17_InsertedRecord ==
    \A s \in DOMAIN pc :
        (req[s].kind = "cjs /submit" /\ local[s].insertedId # Undefined) =>
            \E i \in 1..Len(store) :
                LET doc == store[i]
                    body == req[s].body.f
                IN /\ doc["_id"] = local[s].insertedId
                   /\ DOMAIN doc = (DOMAIN body \ {"captchaToken"})
                                       \cup {"createdAt", "submittedAt", "_id"}
                   /\ \A k \in DOMAIN body \ {"captchaToken", "createdAt", "submittedAt"} :
                          doc[k] = body[k]
                   /\ doc["createdAt"] = Now
                   /\ doc["submittedAt"] = ToISOString(Now)

C17_Witness ==
    /\ Done(1) /\ req[1].kind = "cjs /submit" /\ res[1].status = 200
    /\ "createdAt" \in DOMAIN req[1].body.f
    /\ req[1].body.f["createdAt"] # Now
    /\ \E i \in 1..Len(store) :
           store[i]["_id"] = local[1].insertedId /\ store[i]["createdAt"] = Now

\* the store holds what it held when request s arrived, in the same places
KeepsEarlierRecords(s) ==
    /\ Len(local[s].store0) <= Len(store)
    /\ SubSeq(store, 1, Len(local[s].store0)) = local[s].store0

\* C18: after an index.cjs /submit the submitted record is in the store
\* exactly when the answer is 200; a request answered 400, 409 or 500
\* leaves the store as it was (also when close throws after insertOne), and
\* no request of any route removes or alters a stored record.
C18_StoredIffOk ==
    \A s \in DOMAIN pc :
        /\ Ended(s) => KeepsEarlierRecords(s)
        /\ (Done(s) /\ req[s].kind = "cjs /submit") =>
               IF res[s].status = 200
                 THEN /\ Len(store) = Len(local[s].store0) + 1
                      /\ store[Len(store)]["_id"] = local[s].insertedId
                 ELSE store = local[s].store0

\* auxiliary: the same property, a throwing close after insertOne set aside
C18_ExceptFailedClose ==
    \A s \in DOMAIN pc :
        /\ Ended(s) => KeepsEarlierRecords(s)
        /\ (/\ Done(s) /\ req[s].kind = "cjs /submit"
            /\ ~(ops[s].insertOne = 1 /\ ops[s].failed = "close")) =>
               IF res[s].status = 200
                 THEN /\ Len(store) = Len(local[s].store0) + 1
                      /\ store[Len(store)]["_id"] = local[s].insertedId
                 ELSE store = local[s].store0

\* C19: every record persisted by index.cjs /submit that has a
\* referrer_email of any text value, the empty text included, has a
\* referrer_email matching local@domain.tld, and its email matches too.
C19_ReferrerAlwaysMatches ==
    \A i \in 1..Len(store) :
        ("referrer_email" \in DOMAIN store[i]
             /\ store[i]["referrer_email"].t = "string") =>
            /\ emailRegex(store[i]["referrer_email"].s)
            /\ emailRegex(store[i]["email"].s)

\* auxiliary: the same property of the records whose referrer_email is not
\* the empty text; the email of every record matches
C19_NonEmptyReferrerMatches ==
    \A i \in 1..Len(store) :
        /\ emailRegex(store[i]["email"].s)
        /\ Truthy(Get(store[i], "referrer_email")) =>
               emailRegex(store[i]["referrer_email"].s)

RECURSIVE SplitUnquoted(_, _, _, _)
\* the pieces of text between the separators that stand outside double
\* quotes; cur is the piece being read, inQuotes whether a quote is open
SplitUnquoted(text, sep, inQuotes, cur) ==
    IF text = <<>> THEN <<cur>>
    ELSE IF Head(text) = sep /\ ~inQuotes
      THEN <<cur>> \o SplitUnquoted(Tail(text), sep, FALSE, <<>>)
    ELSE SplitUnquoted(Tail(text), sep,
                       IF Head(text) = "\"" THEN ~inQuotes ELSE inQuotes,
                       Append(cur, Head(text)))

CsvLines(text) == SplitUnquoted(text, "\n", FALSE, <<>>)
CsvColumns(line) == SplitUnquoted(line, ",", FALSE, <<>>)

RECURSIVE Undouble(_)
\* the text in which every pair of double quotes is read as one
Undouble(cs) ==
    IF Len(cs) >= 2 /\ cs[1] = "\"" /\ cs[2] = "\""
      THEN <<"\"">> \o Undouble(SubSeq(cs, 3, Len(cs)))
    ELSE IF cs = <<>> THEN <<>>
    ELSE <<Head(cs)>> \o Undouble(Tail(cs))

RECURSIVE AllDoubled(_)
\* every double quote of the text stands in a pair
AllDoubled(cs) ==
    IF cs = <<>> THEN TRUE
    ELSE IF Head(cs) = "\""
      THEN Len(cs) >= 2 /\ cs[2] = "\"" /\ AllDoubled(SubSeq(cs, 3, Len(cs)))
    ELSE AllDoubled(Tail(cs))

\* column is the text cs between double quotes, its own quotes doubled
IsQuoted(column, cs) ==
    /\ Len(column) >= 2
    /\ column[1] = "\"" /\ column[Len(column)] = "\""
    /\ AllDoubled(SubSeq(column, 2, Len(column) - 1))
    /\ Undouble(SubSeq(column, 2, Len(column) - 1)) = cs

\* the export of request s went through: the key was right, no call threw
CsvExported(s) ==
    /\ Done(s) /\ req[s].kind = "cjs /csv"
    /\ KeyIsCorrect(req[s].key)
    /\ ops[s].failed = ""

\* text is the serialization of documents: a line of the first document's
\* field names, then a line per document with as many columns as the first
\* line, the texts quoted
IsCsvOf(text, documents) ==
    LET headers == ObjectKeys(documents[1])
        lines == CsvLines(text)
    IN /\ Len(lines) = Len(documents) + 1
       /\ CsvColumns(lines[1]) = [j \in 1..Len(headers) |-> <<headers[j]>>]
       /\ \A i \in 1..Len(documents) :
              LET columns == CsvColumns(lines[i + 1]) IN
              /\ Len(columns) = Len(headers)
              /\ \A j \in 1..Len(headers) :
                     Get(documents[i], headers[j]).t = "string" =>
                         /\ j <= Len(columns)
                         /\ IsQuoted(columns[j], documents[i][headers[j]].s)

\* C11: an authorized GET /csv of index.cjs is answered 200 text/csv with
\* the empty text when no record was fetched, and otherwise with a first
\* line of the first record's field names joined by commas and one row per
\* fetched record, in fetch order, of as many columns as the header, every
\* text value between double quotes with its own double quotes doubled.
C11_ReferenceSerialization ==
    \A s \in DOMAIN pc :
        CsvExported(s) =>
            /\ res[s].sent = 1 /\ res[s].status = 200
            /\ res[s].ctype = "text/csv"
            /\ IF local[s].documents = <<>>
                 THEN res[s].text = <<>>
                 ELSE IsCsvOf(res[s].text, local[s].documents)

\* a field of the document holds a list
HasList(doc) == \E k \in DOMAIN doc : doc[k].t = "array"

\* auxiliary: the same property of the exports whose records hold no list
C11_ExceptLists ==
    \A s \in DOMAIN pc :
        (CsvExported(s) /\ \A i \in 1..Len(local[s].documents) :
                               ~HasList(local[s].documents[i])) =>
            /\ res[s].sent = 1 /\ res[s].status = 200
            /\ res[s].ctype = "text/csv"
            /\ IF local[s].documents = <<>>
                 THEN res[s].text = <<>>
                 ELSE IsCsvOf(res[s].text, local[s].documents)

-----------------------------------------------------------------------------
(* Validator harness: every body of ValidatorBodies is handed to            *)
(* isValidFormData once.                                                    *)

ValidatorFieldChoices ==
    [captchaToken   : {Undefined, Str(<<>>), Str(<<"t">>), Num(1)},
     name           : {Undefined, Str(<<>>), Str(<<"A">>)},
     roll_number    : {Undefined, Num(0), Num(7), Str(<<"7">>)},
     gender         : {Undefined, Str(<<"M">>), Str(<<"F">>), Str(<<"X">>)},
     email          : {Undefined, Str(<<>>), Num(1), Str(GoodEmail),
                       Str(NoAtEmail), Str(NoDotEmail), Str(SpaceEmail)},
     about          : {Undefined, Str(<<"h">>)},
     github_link    : {Undefined, Str(<<"g">>), Num(1)},
     referrer_email : {Undefined, Null, Str(<<>>), Str(GoodEmail), Str(NoAtEmail)}]

ValidatorBodies ==
    {Obj(FromRecord(rec)) : rec \in ValidatorFieldChoices}
        \cup {NullBody, StringBody}

InitValidator ==
    /\ vbody \in ValidatorBodies
    /\ validation = NotRun
    /\ store = <<>>
    /\ env = [captchaSecret |-> TRUE, adminKey |-> AdminKey, nodeEnv |-> "production"]
    /\ pc = <<>>
    /\ req = <<>>
    /\ local = <<>>
    /\ ops = <<>>
    /\ res = <<>>

Validate ==
    /\ validation = NotRun
    /\ validation' = isValidFormData(vbody)
    /\ UNCHANGED <<vbody, pvars>>

NextValidator == Validate

SpecValidator == InitValidator /\ [][NextValidator]_vars

-----------------------------------------------------------------------------
(* The validator's rules, one predicate per rule, for the properties about *)
(* the order of evaluation and about acceptance.                            *)

RuleFails(rule, body) ==
    LET b == body.f IN
    CASE rule = "object"          -> body.t # "object"
      [] rule = "token"           -> ~Truthy(Get(b, "captchaToken"))
                                        \/ Get(b, "captchaToken").t # "string"
      [] rule = "name"            -> ~Truthy(Get(b, "name"))
                                        \/ Get(b, "name").t # "string"
      [] rule = "roll_number"     -> ~Truthy(Get(b, "roll_number"))
                                        \/ Get(b, "roll_number").t # "number"
      [] rule = "gender"          -> Get(b, "gender") \notin {Str(<<"M">>), Str(<<"F">>)}
      [] rule = "email_missing"   -> ~Truthy(Get(b, "email"))
                                        \/ Get(b, "email").t # "string"
      [] rule = "email_malformed" -> ~emailRegex(Get(b, "email").s)
      [] rule = "about"           -> ~Truthy(Get(b, "about"))
                                        \/ Get(b, "about").t # "string"
      [] rule = "optional_type"   ->
            \E i \in 1..Len(optionalStringFields) :
                /\ optionalStringFields[i] \in DOMAIN b
                /\ b[optionalStringFields[i]].t # "string"
      [] rule = "referrer_format" -> /\ Truthy(Get(b, "referrer_email"))
                                     /\ ~emailRegex(Get(b, "referrer_email").s)

RuleReasons(rule) ==
    CASE rule = "object"          -> {"Request body must be an object"}
      [] rule = "token"           -> {"CAPTCHA token is required"}
      [] rule = "name"            -> {"Name is required and must be a string"}
      [] rule = "roll_number"     -> {"Roll number is required and must be a number"}
      [] rule = "gender"          -> {"Gender is required and must be 'M' or 'F'"}
      [] rule = "email_missing"   -> {"Email is required and must be a string"}
      [] rule = "email_malformed" -> {"Invalid email format"}
      [] rule = "about"           -> {"About is required and must be a string"}
      [] rule = "optional_type"   ->
            {optionalStringFields[i] \o " must be a string if provided" :
                 i \in 1..Len(optionalStringFields)}
      [] rule = "referrer_format" -> {"Invalid referrer email format"}

\* the order of the specification's rule list
SpecOrder ==
    <<"object", "token", "name", "roll_number", "gender", "email_missing",
      "email_malformed", "about", "optional_type", "referrer_format">>

\* the same list with the about rule before the e-mail format rule
AboutFirstOrder ==
    <<"object", "token", "name", "roll_number", "gender", "email_missing",
      "about", "email_malformed", "optional_type", "referrer_format">>

\* the result is that of the first failing rule of order, acceptance if none
FollowsOrder(order, body, result) ==
    LET failing == {i \in 1..Len(order) : RuleFails(order[i], body)} IN
    IF failing = {} THEN result = Valid
    ELSE LET first == CHOOSE i \in failing : \A j \in failing : i <= j
         IN ~result.valid /\ result.error \in RuleReasons(order[first])

ValidatorRan == validation # NotRun

MalformedEmailAndNoAbout ==
    /\ vbody.t = "object"
    /\ \A i \in 1..6 : ~RuleFails(SpecOrder[i], vbody)
    /\ RuleFails("email_malformed", vbody)
    /\ "about" \notin DOMAIN vbody.f

\* C6 (as claimed): isValidFormData returns the reason of the first failing
\* rule in the specification's order (..., email missing, email malformed,
\* about, ...); a malformed e-mail with a missing about yields the
\* malformed-email reason.
C6_SpecOrder ==
    ValidatorRan =>
        /\ FollowsOrder(SpecOrder, vbody, validation)
        /\ MalformedEmailAndNoAbout => validation.error = "Invalid email format"

\* C6 (amended): isValidFormData returns the reason of the first failing rule
\* in the order object, token, name, roll_number, gender, email missing,
\* about, email malformed, optional field types, referrer_email format; a
\* malformed e-mail with a missing about yields the about reason.
C6_AboutBeforeFormat ==
    ValidatorRan =>
        /\ FollowsOrder(AboutFirstOrder, vbody, validation)
        /\ MalformedEmailAndNoAbout =>
              validation.error = "About is required and must be a string"

C6_Witness ==
    /\ ValidatorRan
    /\ MalformedEmailAndNoAbout
    /\ Get(vbody.f, "email").s # <<>>
    /\ ~validation.valid

RequiredFields ==
    <<"captchaToken", "name", "roll_number", "gender", "email", "about">>

RequiredRule(field) ==
    CASE field = "captchaToken" -> "token"
      [] field = "name"         -> "name"
      [] field = "roll_number"  -> "roll_number"
      [] field = "gender"       -> "gender"
      [] field = "email"        -> "email_missing"
      [] field = "about"        -> "about"

MissingRequired(body) ==
    {i \in 1..Len(RequiredFields) : RequiredFields[i] \notin DOMAIN body.f}

\* every required field present and well-typed, every optional field that is
\* present a text, referrer_email matching the pattern
WellTyped(body) ==
    LET b == body.f IN
    /\ body.t = "object"
    /\ \A fld \in {"captchaToken", "name", "about"} :
           Get(b, fld).t = "string" /\ Get(b, fld).s # <<>>
    /\ Get(b, "roll_number").t = "number"
    /\ Get(b, "gender") \in {Str(<<"M">>), Str(<<"F">>)}
    /\ Get(b, "email").t = "string" /\ emailRegex(Get(b, "email").s)
    /\ \A i \in 1..Len(optionalStringFields) :
           optionalStringFields[i] \in DOMAIN b =>
               b[optionalStringFields[i]].t = "string"
    /\ "referrer_email" \in DOMAIN b => emailRegex(b["referrer_email"].s)

\* C7: a record missing a required field is rejected with a reason naming a
\* required field that is missing or ill-typed, and a record whose required fields are all present and
\* well-typed (roll_number any numeric value) is accepted.
C7_RejectsMissingAcceptsWellTyped ==
    (ValidatorRan /\ vbody.t = "object") =>
        /\ MissingRequired(vbody) # {} =>
              /\ ~validation.valid
              /\ \E i \in 1..Len(RequiredFields) :
                     /\ RuleFails(RequiredRule(RequiredFields[i]), vbody)
                     /\ validation.error \in RuleReasons(RequiredRule(RequiredFields[i]))
        /\ WellTyped(vbody) => validation.valid

\* auxiliary: the same property over the records whose roll_number is not 0
C7_ExceptZeroRoll ==
    (ValidatorRan /\ vbody.t = "object" /\ Get(vbody.f, "roll_number") # Num(0)) =>
        /\ MissingRequired(vbody) # {} =>
              /\ ~validation.valid
              /\ \E i \in 1..Len(RequiredFields) :
                     /\ RuleFails(RequiredRule(RequiredFields[i]), vbody)
                     /\ validation.error \in RuleReasons(RequiredRule(RequiredFields[i]))
        /\ WellTyped(vbody) => validation.valid

=============================================================================
